---- MODULE Spec2Model ----
(***************************************************************************)
(* A model of the VocalVerse-AI backend (src/backend/main.py): the three   *)
(* media endpoints (upload_audio, generate_subtitles, video_translate)     *)
(* with their temporary files, media handles and finally-blocks, the SRT   *)
(* serializer generate_srt with its timestamp formatter, and the           *)
(* summarize endpoint.                                                     *)
(*                                                                         *)
(* Python strings are sequences of one-character strings, so that split,   *)
(* rsplit, replace, strip and the f-strings are computed character by      *)
(* character as the interpreter computes them.                             *)
(***************************************************************************)
EXTENDS Integers, Sequences, FiniteSets, TLC

(***************************************************************************)
(* Bounds of the model.                                                    *)
(***************************************************************************)
\* length of a generated identifier (str(uuid.uuid4()) has a fixed length)
UuidLen == 1
\* clip and audio durations range over 1..MaxDur
MaxDur == 2
\* generate_srt is run on lists of at most MaxSegs segments
MaxSegs == 2

(***************************************************************************)
(* Strings.                                                                *)
(***************************************************************************)
DOT == "."

RECURSIVE Count(_, _)
\* str.count for a single character
Count(s, c) ==
    IF s = <<>> THEN 0
    ELSE (IF Head(s) = c THEN 1 ELSE 0) + Count(Tail(s), c)

\* index of the last occurrence of character c in s, 0 when there is none
LastIndexOf(s, c) ==
    IF \E i \in 1..Len(s) : s[i] = c
    THEN CHOOSE i \in 1..Len(s) :
            /\ s[i] = c
            /\ \A j \in (i+1)..Len(s) : s[j] # c
    ELSE 0

\* s.split('.')[-1]: what follows the last dot (all of s when it has none)
SplitLast(s) == SubSeq(s, LastIndexOf(s, DOT) + 1, Len(s))

\* s.rsplit('.', 1)[0]: what precedes the last dot (all of s when it has none)
RSplitFirst(s) ==
    IF LastIndexOf(s, DOT) = 0 THEN s
    ELSE SubSeq(s, 1, LastIndexOf(s, DOT) - 1)

\* whether old occurs in s at position i
OccursAt(s, old, i) ==
    /\ i + Len(old) - 1 <= Len(s)
    /\ SubSeq(s, i, i + Len(old) - 1) = old

RECURSIVE ReplaceFrom(_, _, _, _)
ReplaceFrom(s, old, new, i) ==
    IF i > Len(s) THEN <<>>
    ELSE IF OccursAt(s, old, i)
         THEN new \o ReplaceFrom(s, old, new, i + Len(old))
         ELSE <<s[i]>> \o ReplaceFrom(s, old, new, i + 1)

\* s.replace(old, new) for a non-empty old: every non-overlapping occurrence,
\* scanning from the left
Replace(s, old, new) == ReplaceFrom(s, old, new, 1)

(***************************************************************************)
(* File names of the media endpoints.                                      *)
(***************************************************************************)
UPLOAD_DIR == <<"u", "p", "l", "o", "a", "d", "s">>

SEP == "/"

\* os.path.join(UPLOAD_DIR, name), name being relative
PathJoin(dir, name) == dir \o <<SEP>> \o name

MP3 == <<"m", "p", "3">>
MP4 == <<"m", "p", "4">>
SRT == <<"s", "r", "t">>
TTS_SUFFIX == <<"_", "t", "t", "s">> \o <<DOT>> \o MP3
TRANSLATED_SUFFIX == <<"_", "t", "r", "a", "n", "s", "l", "a", "t", "e", "d">> \o <<DOT>> \o MP4

\* file.filename.split('.')[-1] if '.' in file.filename else <default>
FileExtension(filename, default) ==
    IF Count(filename, DOT) > 0 THEN SplitLast(filename) ELSE default

\* a unique name that keeps the client's file name instead of the identifier
UniqueFilenameOfUpload(uuid, filename, default) ==
    RSplitFirst(filename) \o <<DOT>> \o FileExtension(filename, default)

\* f"{uuid.uuid4()}.{file_extension}"
UniqueFilename(uuid, filename, default) ==
    uuid \o <<DOT>> \o FileExtension(filename, default)

\* upload_audio: file_path, srt_path
UploadAudioPaths(uuid, filename) ==
    LET unique == UniqueFilename(uuid, filename, MP3)
    IN  [ video  |-> PathJoin(UPLOAD_DIR, unique),
          audio  |-> <<>>,
          tts    |-> <<>>,
          srt    |-> PathJoin(UPLOAD_DIR, RSplitFirst(unique) \o <<DOT>> \o SRT),
          output |-> <<>> ]

\* generate_subtitles: video_path, audio_path, srt_path
SubtitlePaths(uuid, filename) ==
    LET ext    == FileExtension(filename, MP4)
        unique == UniqueFilename(uuid, filename, MP4)
        video  == PathJoin(UPLOAD_DIR, unique)
    IN  [ video  |-> video,
          audio  |-> Replace(video, <<DOT>> \o ext, <<DOT>> \o MP3),
          tts    |-> <<>>,
          srt    |-> PathJoin(UPLOAD_DIR, RSplitFirst(unique) \o <<DOT>> \o SRT),
          output |-> <<>> ]

\* video_translate: video_path, audio_path, tts_path, output_path
TranslatePaths(uuid, filename) ==
    LET ext    == FileExtension(filename, MP4)
        unique == UniqueFilename(uuid, filename, MP4)
        video  == PathJoin(UPLOAD_DIR, unique)
    IN  [ video  |-> video,
          audio  |-> Replace(video, <<DOT>> \o ext, <<DOT>> \o MP3),
          tts    |-> Replace(video, <<DOT>> \o ext, TTS_SUFFIX),
          srt    |-> <<>>,
          output |-> PathJoin(UPLOAD_DIR, RSplitFirst(unique) \o TRANSLATED_SUFFIX) ]

(***************************************************************************)
(* The media endpoints: upload_audio (lines 197-244), generate_subtitles   *)
(* (246-316) and video_translate (318-393).                                *)
(*                                                                         *)
(* A request is a sequential run of its handler: the statements of the try *)
(* body in order, then the except clause when one of them raised, then the *)
(* statements of the finally block in order.  Every call into a library    *)
(* (open, moviepy, whisper, googletrans, gTTS, os.remove) either returns   *)
(* or raises.  The file system (the directory uploads/) is shared by all   *)
(* requests.                                                               *)
(***************************************************************************)
VARIABLES
    env,        \* the run's environment: whether calls into the libraries
                \* and the file system can raise, and the durations media have
    models,     \* the global models that loaded at start-up (lines 39-65)
    pc,         \* per request: [phase, i], the statement the handler is at
    ep,         \* per request: the endpoint that was called
    filename,   \* per request: file.filename of the upload
    lang,       \* per request: the lang form field
    uid,        \* per request: the value of str(uuid.uuid4())
    path,       \* per request: the file names the handler computed
    clipVar,    \* per request: whether the local variable clip is not None
    acq,        \* per request: the resources acquired, in acquisition order
    rel,        \* per request: the release calls made, in call order
    raised,     \* per request: the statement of the try body that raised
    warn,       \* per request: the statement of the finally block that raised
    result,     \* per request: what the caller receives
    dur,        \* per request: durations of the clip and of the new audio
    fs,         \* the files that exist in uploads/
    touched     \* per request: the paths it created, read or removed

mediaVars == << env, models, pc, ep, filename, lang, uid, path, clipVar, acq,
                rel, raised, warn, result, dur, fs, touched >>

\* the state of generate_srt
VARIABLES
    segments,   \* the segments generate_srt is given
    srtPc,      \* where generate_srt is: "idle", "start", "loop", "closed"
    srtI,       \* the index i of enumerate(segments, start=1)
    srtFile,    \* the characters written to srt_path
    stamps      \* the fields format_timestamp computed, per entry written

srtVars == << segments, srtPc, srtI, srtFile, stamps >>

\* the state of summarize_text
VARIABLES
    sumPc,          \* the statement summarize_text is at
    sumReq,         \* the form fields text, input_lang, output_lang
    processed,      \* processed_text
    englishSummary, \* english_summary
    finalSummary,   \* final_summary
    sumExc,         \* the exception raised in the try body
    sumCalls,       \* the number of calls of global_summarizer
    sumResult       \* what the caller receives

sumVars == << sumPc, sumReq, processed, englishSummary, finalSummary, sumExc,
              sumCalls, sumResult >>

Reqs == {1, 2}

UPLOAD_AUDIO == "upload_audio"
GENERATE_SUBTITLES == "generate_subtitles"
VIDEO_TRANSLATE == "video_translate"
Endpoints == {UPLOAD_AUDIO, GENERATE_SUBTITLES, VIDEO_TRANSLATE}

AllModels == {"translator", "summarizer", "whisper"}

\* characters of a generated identifier
UuidChars == {"a", "f"}
\* the values str(uuid.uuid4()) can take: all of one length
Uuids == [1..UuidLen -> UuidChars]

\* uploaded file names: a video, a name ending in .srt, a name ending in
\* .mp3, a name with two dots, a name without a dot
Filenames ==
    { <<"v", DOT>> \o MP4,
      <<"v", DOT>> \o SRT,
      <<"v", DOT>> \o MP3,
      <<"a", DOT, "b", DOT, "m", "o", "v">>,
      <<"v">> }

Langs == {"en", "fr"}

\* the statements of each handler's try body, in source order
Program(e) ==
    CASE e = UPLOAD_AUDIO ->
            << "save", "transcribe", "srt", "translate", "return" >>
      [] e = GENERATE_SUBTITLES ->
            << "save", "open_clip", "extract", "close_clip", "transcribe",
               "srt", "translate", "return" >>
      [] e = VIDEO_TRANSLATE ->
            << "save", "open_clip", "extract", "transcribe", "translate",
               "tts", "open_audio", "trim", "set_audio", "write_video",
               "close_final", "close_audio", "return" >>

\* a finally block that removes the files before it closes the clip
CleanupFilesFirst(e) ==
    CASE e = UPLOAD_AUDIO -> << "upload" >>
      [] e = GENERATE_SUBTITLES -> << "audio", "upload", "clip" >>
      [] e = VIDEO_TRANSLATE -> << "tts", "audio", "upload", "clip" >>

\* the statements of each handler's finally block, in source order
Cleanup(e) ==
    CASE e = UPLOAD_AUDIO -> << "upload" >>
      [] e = GENERATE_SUBTITLES -> << "clip", "upload", "audio" >>
      [] e = VIDEO_TRANSLATE -> << "clip", "upload", "audio", "tts" >>

Handles == {"clip", "new_audio", "final_clip"}
TempFiles == {"upload", "audio", "tts"}

\* the path of a temporary-file resource of request r
ResourcePath(r, x) ==
    CASE x = "upload" -> path[r].video
      [] x = "audio" -> path[r].audio
      [] x = "tts" -> path[r].tts

\* the paths the handler computes before its try block
ComputePaths(e, uuid, f) ==
    CASE e = UPLOAD_AUDIO -> UploadAudioPaths(uuid, f)
      [] e = GENERATE_SUBTITLES -> SubtitlePaths(uuid, f)
      [] e = VIDEO_TRANSLATE -> TranslatePaths(uuid, f)

NoPaths == [video |-> <<>>, audio |-> <<>>, tts |-> <<>>, srt |-> <<>>, output |-> <<>>]
NoResult == [status |-> 0, kind |-> "none", at |-> "none"]
NoDur == [V |-> 0, A |-> 0, new |-> 0, out |-> 0]

At(r, stmt) ==
    /\ pc[r].phase = "try"
    /\ Program(ep[r])[pc[r].i] = stmt

\* the statement returned: the next statement of the try body
Advance(r) == pc' = [pc EXCEPT ![r].i = @ + 1]

\* the statement raised (lines 238-240, 305-307, 381-383): the except
\* clause raises HTTPException(status_code=500, detail=f"... {str(e)}") in
\* its place, and control goes to the finally block
RaiseWhen(r, stmt, certain) ==
    /\ env.faulty \/ certain
    /\ raised' = [raised EXCEPT ![r] = stmt]
    /\ result' = [result EXCEPT ![r] =
            [status |-> 500, kind |-> "stage", at |-> stmt]]
    /\ pc' = [pc EXCEPT ![r] = [phase |-> "finally", i |-> 1]]

\* a call that may raise for a reason outside the model
Raise(r, stmt) == RaiseWhen(r, stmt, FALSE)

Touch(r, p) == touched' = [touched EXCEPT ![r] = @ \cup {p}]

\* the values of the lang form field tried for each endpoint (upload_audio
\* has none and always translates to English)
LangsFor(e) ==
    CASE e = UPLOAD_AUDIO -> {"en"}
      [] e = GENERATE_SUBTITLES -> Langs
      [] e = VIDEO_TRANSLATE -> {"fr"}

\* what a request never changes once it has arrived
fixed == << env, models, uid, srtVars, sumVars >>

\* lines 203-211, 253-266, 324-338: the model checks, then the file names
Begin(r) ==
    /\ pc[r].phase = "new"
    /\ \E e \in Endpoints, f \in Filenames :
        \E l \in LangsFor(e) :
            /\ ep' = [ep EXCEPT ![r] = e]
            /\ filename' = [filename EXCEPT ![r] = f]
            /\ lang' = [lang EXCEPT ![r] = l]
            /\ \/ /\ "whisper" \notin models
                  /\ result' = [result EXCEPT ![r] =
                        [status |-> 500, kind |-> "unavailable", at |-> "whisper"]]
                  /\ pc' = [pc EXCEPT ![r] = [phase |-> "done", i |-> 0]]
                  /\ UNCHANGED << uid, path >>
               \/ /\ "whisper" \in models
                  /\ "translator" \notin models
                  /\ result' = [result EXCEPT ![r] =
                        [status |-> 500, kind |-> "unavailable", at |-> "translator"]]
                  /\ pc' = [pc EXCEPT ![r] = [phase |-> "done", i |-> 0]]
                  /\ UNCHANGED << uid, path >>
               \/ /\ {"whisper", "translator"} \subseteq models
                  /\ \E uuid \in Uuids :
                        /\ uid' = [uid EXCEPT ![r] = uuid]
                        /\ path' = [path EXCEPT ![r] = ComputePaths(e, uuid, f)]
                  /\ pc' = [pc EXCEPT ![r] = [phase |-> "try", i |-> 1]]
                  /\ UNCHANGED result
    /\ UNCHANGED << env, models, clipVar, acq, rel, raised, warn, dur, fs, touched,
                    srtVars, sumVars >>

\* a statement that writes the file p, which becomes resource x of the
\* request when x is not "none": it returns with the file written, or raises
\* before or after having created the file
WriteFile(r, stmt, p, x) ==
    \/ /\ fs' = fs \cup {p}
       /\ Touch(r, p)
       /\ acq' = [acq EXCEPT ![r] = IF x = "none" THEN @ ELSE Append(@, x)]
       /\ Advance(r)
       /\ UNCHANGED << raised, result >>
    \/ /\ \E created \in BOOLEAN :
            /\ fs' = IF created THEN fs \cup {p} ELSE fs
            /\ touched' = [touched EXCEPT ![r] = IF created THEN @ \cup {p} ELSE @]
            /\ acq' = [acq EXCEPT ![r] =
                        IF created /\ x # "none" THEN Append(@, x) ELSE @]
       /\ Raise(r, stmt)

\* lines 215-216, 270-271, 342-343: open(path, "wb") and shutil.copyfileobj
SaveUpload(r) ==
    /\ At(r, "save")
    /\ WriteFile(r, "save", path[r].video, "upload")
    /\ UNCHANGED << fixed, warn, ep, filename, lang, path, clipVar, rel, dur >>

\* the durations tried for the clip of a request to endpoint e (only
\* video_translate reads clip.duration)
ClipDurations(e) == IF e = VIDEO_TRANSLATE THEN env.durations ELSE {0}

\* lines 274, 346: clip = mp.VideoFileClip(video_path)
OpenClip(r) ==
    /\ At(r, "open_clip")
    /\ \/ /\ path[r].video \in fs
          /\ clipVar' = [clipVar EXCEPT ![r] = TRUE]
          /\ acq' = [acq EXCEPT ![r] = Append(@, "clip")]
          /\ \E v \in ClipDurations(ep[r]) : dur' = [dur EXCEPT ![r].V = v]
          /\ Touch(r, path[r].video)
          /\ Advance(r)
          /\ UNCHANGED << raised, result >>
       \/ /\ RaiseWhen(r, "open_clip", path[r].video \notin fs)
          /\ UNCHANGED << clipVar, acq, dur, touched >>
    /\ UNCHANGED << fixed, warn, ep, filename, lang, path, rel, fs >>

\* lines 275, 347: clip.audio.write_audiofile(audio_path)
ExtractAudio(r) ==
    /\ At(r, "extract")
    /\ WriteFile(r, "extract", path[r].audio, "audio")
    /\ UNCHANGED << fixed, warn, ep, filename, lang, path, clipVar, rel, dur >>

\* a close() call in the try body on handle h: it returns or raises
CloseInTry(r, stmt, h) ==
    /\ At(r, stmt)
    /\ \/ /\ rel' = [rel EXCEPT ![r] = Append(@, h)]
          /\ Advance(r)
          /\ UNCHANGED << raised, result >>
       \/ /\ Raise(r, stmt)
          /\ UNCHANGED rel
    /\ UNCHANGED << fixed, warn, ep, filename, lang, path, clipVar, acq, dur, fs,
                    touched >>

\* line 276: clip.close() in the try body of generate_subtitles
CloseClipEarly(r) == CloseInTry(r, "close_clip", "clip")

\* the file whisper is given: the upload itself (line 219) or the
\* extracted audio (lines 280, 350)
TranscribeInput(r) ==
    IF ep[r] = UPLOAD_AUDIO THEN path[r].video ELSE path[r].audio

\* lines 219-221, 280-282, 350-351: global_whisper_model.transcribe(path)
Transcribe(r) ==
    /\ At(r, "transcribe")
    /\ \/ /\ TranscribeInput(r) \in fs
          /\ Touch(r, TranscribeInput(r))
          /\ Advance(r)
          /\ UNCHANGED << raised, result >>
       \/ /\ RaiseWhen(r, "transcribe", TranscribeInput(r) \notin fs)
          /\ UNCHANGED touched
    /\ UNCHANGED << fixed, warn, ep, filename, lang, path, clipVar, acq, rel, dur, fs >>

\* lines 224-226, 285: generate_srt(segments, srt_path)
WriteSrt(r) ==
    /\ At(r, "srt")
    /\ WriteFile(r, "srt", path[r].srt, "none")
    /\ UNCHANGED << fixed, warn, ep, filename, lang, path, clipVar, rel, dur >>

\* whether the handler calls the translator: always (lines 229, 354), or
\* only for a target other than English (line 288)
Translates(r) == ep[r] # GENERATE_SUBTITLES \/ lang[r] # "en"

\* lines 229, 288-291, 354: global_translator.translate(text, dest=...)
Translate(r) ==
    /\ At(r, "translate")
    /\ \/ /\ Advance(r)
          /\ UNCHANGED << raised, result >>
       \/ /\ Translates(r)
          /\ Raise(r, "translate")
    /\ UNCHANGED << fixed, warn, ep, filename, lang, path, clipVar, acq, rel,
                    raised, dur, fs, touched >>

\* lines 358-359: gTTS(translated, lang=lang).save(tts_path)
Synthesize(r) ==
    /\ At(r, "tts")
    /\ WriteFile(r, "tts", path[r].tts, "tts")
    /\ UNCHANGED << fixed, warn, ep, filename, lang, path, clipVar, rel, dur >>

\* line 362: new_audio = mp.AudioFileClip(tts_path)
OpenAudio(r) ==
    /\ At(r, "open_audio")
    /\ \/ /\ path[r].tts \in fs
          /\ acq' = [acq EXCEPT ![r] = Append(@, "new_audio")]
          /\ \E a \in env.durations :
                dur' = [dur EXCEPT ![r].A = a, ![r].new = a]
          /\ Touch(r, path[r].tts)
          /\ Advance(r)
          /\ UNCHANGED << raised, result >>
       \/ /\ RaiseWhen(r, "open_audio", path[r].tts \notin fs)
          /\ UNCHANGED << acq, dur, touched >>
    /\ UNCHANGED << fixed, warn, ep, filename, lang, path, clipVar, rel, fs >>

\* the duration of clip.subclip(t_start, t_end)
SubclipDuration(t_start, t_end) == t_end - t_start

\* an if/elif that never cuts the new audio
TrimmedDurationUncut(audio, video) == audio

\* lines 364-368: the duration of new_audio after the if/elif
TrimmedDuration(audio, video) ==
    IF audio > video THEN SubclipDuration(0, video)
    ELSE audio

TrimAudio(r) ==
    /\ At(r, "trim")
    /\ dur' = [dur EXCEPT ![r].new = TrimmedDuration(dur[r].new, dur[r].V)]
    /\ Advance(r)
    /\ UNCHANGED << fixed, warn, ep, filename, lang, path, clipVar, acq, rel, raised,
                    result, fs, touched >>

\* line 370: final_clip = clip.set_audio(new_audio)
SetAudio(r) ==
    /\ At(r, "set_audio")
    /\ acq' = [acq EXCEPT ![r] = Append(@, "final_clip")]
    /\ dur' = [dur EXCEPT ![r].out = dur[r].new]
    /\ Advance(r)
    /\ UNCHANGED << fixed, warn, ep, filename, lang, path, clipVar, rel, raised,
                    result, fs, touched >>

\* line 371: final_clip.write_videofile(output_path, ...)
WriteVideo(r) ==
    /\ At(r, "write_video")
    /\ WriteFile(r, "write_video", path[r].output, "none")
    /\ UNCHANGED << fixed, warn, ep, filename, lang, path, clipVar, rel, dur >>

\* line 372: final_clip.close()
CloseFinal(r) == CloseInTry(r, "close_final", "final_clip")

\* line 373: new_audio.close()
CloseNewAudio(r) == CloseInTry(r, "close_audio", "new_audio")

\* lines 231-236, 298-303, 375-379: return JSONResponse(..., status_code=200);
\* the finally block runs before the handler is left
Return(r) ==
    /\ At(r, "return")
    /\ result' = [result EXCEPT ![r] =
            [status |-> 200, kind |-> "success", at |-> "none"]]
    /\ pc' = [pc EXCEPT ![r] = [phase |-> "finally", i |-> 1]]
    /\ UNCHANGED << fixed, warn, ep, filename, lang, path, clipVar, acq, rel,
                    raised, dur, fs, touched >>

\* the statement of the finally block returned: the next one, or the
\* handler is left
FinallyAdvance(r) ==
    pc' = [pc EXCEPT ![r] =
            IF pc[r].i = Len(Cleanup(ep[r]))
            THEN [phase |-> "done", i |-> 0]
            ELSE [phase |-> "finally", i |-> pc[r].i + 1]]

\* the statement of the finally block raised: the exception leaves the
\* handler at once, in place of the response or HTTPException under way
FinallyRaise(r, x) ==
    /\ env.faulty
    /\ warn' = [warn EXCEPT ![r] = x]
    /\ pc' = [pc EXCEPT ![r] = [phase |-> "done", i |-> 0]]
    /\ result' = [result EXCEPT ![r] =
            [status |-> 500, kind |-> "release", at |-> x]]

\* lines 310-311, 386-387: if clip: clip.close()
FinallyCloseClip(r) ==
    /\ pc[r].phase = "finally"
    /\ Cleanup(ep[r])[pc[r].i] = "clip"
    /\ \/ /\ ~clipVar[r]
          /\ FinallyAdvance(r)
          /\ UNCHANGED << rel, warn, result >>
       \/ /\ clipVar[r]
          /\ rel' = [rel EXCEPT ![r] = Append(@, "clip")]
          /\ FinallyAdvance(r)
          /\ UNCHANGED << warn, result >>
       \/ /\ clipVar[r]
          /\ FinallyRaise(r, "clip")
          /\ UNCHANGED rel
    /\ UNCHANGED << fixed, raised, ep, filename, lang, path, clipVar, acq, dur, fs,
                    touched >>

\* lines 243-244, 312-315, 388-393: if os.path.exists(p): os.remove(p)
FinallyRemove(r) ==
    /\ pc[r].phase = "finally"
    /\ \E x \in TempFiles :
        /\ Cleanup(ep[r])[pc[r].i] = x
        /\ LET p == ResourcePath(r, x) IN
            \/ /\ p \notin fs
               /\ FinallyAdvance(r)
               /\ UNCHANGED << rel, warn, result, fs, touched >>
            \/ /\ p \in fs
               /\ fs' = fs \ {p}
               /\ rel' = [rel EXCEPT ![r] = Append(@, x)]
               /\ Touch(r, p)
               /\ FinallyAdvance(r)
               /\ UNCHANGED << warn, result >>
            \/ /\ p \in fs
               /\ FinallyRaise(r, x)
               /\ UNCHANGED << rel, fs, touched >>
    /\ UNCHANGED << fixed, raised, ep, filename, lang, path, clipVar, acq, dur >>

MediaStep(r) ==
    \/ Begin(r)
    \/ SaveUpload(r)
    \/ OpenClip(r)
    \/ ExtractAudio(r)
    \/ CloseClipEarly(r)
    \/ Transcribe(r)
    \/ WriteSrt(r)
    \/ Translate(r)
    \/ Synthesize(r)
    \/ OpenAudio(r)
    \/ TrimAudio(r)
    \/ SetAudio(r)
    \/ WriteVideo(r)
    \/ CloseFinal(r)
    \/ CloseNewAudio(r)
    \/ Return(r)
    \/ FinallyCloseClip(r)
    \/ FinallyRemove(r)

\* the state before any request: the requests of arrived are about to be
\* handled, the others of Reqs never come; loaded holds the sets of models
\* that may have loaded at start-up
MediaInit(arrived, faulty, durations, loaded) ==
    /\ env = [faulty |-> faulty, durations |-> durations]
    /\ models \in loaded
    /\ pc = [r \in Reqs |-> [phase |-> IF r \in arrived THEN "new" ELSE "absent", i |-> 0]]
    /\ ep = [r \in Reqs |-> "none"]
    /\ filename = [r \in Reqs |-> <<>>]
    /\ lang = [r \in Reqs |-> "none"]
    /\ uid = [r \in Reqs |-> <<>>]
    /\ path = [r \in Reqs |-> NoPaths]
    /\ clipVar = [r \in Reqs |-> FALSE]
    /\ acq = [r \in Reqs |-> <<>>]
    /\ rel = [r \in Reqs |-> <<>>]
    /\ raised = [r \in Reqs |-> "none"]
    /\ warn = [r \in Reqs |-> "none"]
    /\ result = [r \in Reqs |-> NoResult]
    /\ dur = [r \in Reqs |-> NoDur]
    /\ fs = {}
    /\ touched = [r \in Reqs |-> {}]

\* start-ups in which every model loaded, or all but one of ms
StartupsWithout(ms) == {AllModels} \cup {AllModels \ {m} : m \in ms}

\* no request to a media endpoint
MediaIdle == MediaInit({}, FALSE, {}, {AllModels})

(***************************************************************************)
(* generate_srt (lines 69-86) and its format_timestamp (lines 73-79).      *)
(*                                                                         *)
(* A segment's start and end are Python floats.  The model gives a time as *)
(* its count m of milliseconds and means by it the float nearest to        *)
(* m/1000, which is what a time of m milliseconds is as a float of         *)
(* seconds (3661.234 is m = 3661234).                                      *)
(***************************************************************************)
RECURSIVE FloorLog2(_)
\* the largest j with 2^j <= n, for n >= 1
FloorLog2(n) == IF n < 2 THEN 0 ELSE 1 + FloorLog2(n \div 2)

RECURSIVE Pow2(_)
Pow2(k) == IF k = 0 THEN 1 ELSE 2 * Pow2(k - 1)

RECURSIVE Pow2Mod(_, _)
\* 2^k modulo n
Pow2Mod(k, n) == IF k = 0 THEN 1 % n ELSE (2 * Pow2Mod(k - 1, n)) % n

RECURSIVE ShiftsTo1000(_)
\* the least k with m * 2^k >= 1000, for 1 <= m
ShiftsTo1000(m) == IF m >= 1000 THEN 0 ELSE 1 + ShiftsTo1000(2 * m)

\* the exponent a of the float nearest m/1000: 2^a <= m/1000 < 2^(a+1)
SecondsExponent(m) ==
    IF m >= 1000 THEN FloorLog2(m \div 1000) ELSE 0 - ShiftsTo1000(m)

\* int(seconds * 1000) of line 74, seconds being the float (IEEE 754
\* binary64, 53 significant bits) nearest m/1000, m < 2^31.
\*   seconds = M * 2^(a-52) with M the integer nearest m * 2^(52-a) / 1000
\*           = m * 2^(49-a) / 125, so M = (m * 2^(49-a) - r) / 125 with
\*   r = (m * 2^(49-a)) mod 125 when r <= 62 (rounded down), and M is that
\*   plus one when r >= 63 (rounded up).
\*   The exact product seconds * 1000 is then m - 8r * 2^(a-52) (rounded
\*   down) or m + 8(125-r) * 2^(a-52) (rounded up).  It is rounded to the
\*   nearest float: floats around m are 2^(j-52) apart, j the exponent of m
\*   (half that below m when m is a power of two), that is S = 2^(j-a)
\*   units of 2^(a-52), S being 512 or 1024.  A product above m rounds to m
\*   or to the next float, both of which int() truncates to m.  A product
\*   below m rounds to m when 8r <= S/2 (a tie goes to m, whose significand
\*   is even) and to a float below m otherwise, which int() truncates to
\*   m - 1.
MillisOfSeconds(m) ==
    IF m = 0 THEN 0
    ELSE LET a == SecondsExponent(m)
             j == FloorLog2(m)
             r == ((m % 125) * Pow2Mod(49 - a, 125)) % 125
             S == IF m = Pow2(j) THEN Pow2(j - a) \div 2 ELSE Pow2(j - a)
         IN  IF r <= 62 /\ 2 * 8 * r > S THEN m - 1 ELSE m

\* lines 74-78: the fields of format_timestamp(seconds)
TimestampFields(m) ==
    LET millis == MillisOfSeconds(m)
    IN  [ hours        |-> millis \div 3600000,
          minutes      |-> (millis % 3600000) \div 60000,
          seconds      |-> (millis % 60000) \div 1000,
          milliseconds |-> millis % 1000 ]

Digit(d) == << "0", "1", "2", "3", "4", "5", "6", "7", "8", "9" >>[d + 1]

RECURSIVE Decimal(_)
\* str(n) for n >= 0
Decimal(n) == IF n < 10 THEN << Digit(n) >>
              ELSE Decimal(n \div 10) \o << Digit(n % 10) >>

RECURSIVE ZeroPad(_, _)
\* the format specs :02 and :03 of an f-string: at least width characters,
\* zeros added on the left
ZeroPad(s, width) == IF Len(s) >= width THEN s ELSE ZeroPad(<<"0">> \o s, width)

\* line 79: f"{hours:02}:{minutes:02}:{seconds:02},{milliseconds:03}"
FormatFields(f) ==
    ZeroPad(Decimal(f.hours), 2) \o <<":">> \o ZeroPad(Decimal(f.minutes), 2)
        \o <<":">> \o ZeroPad(Decimal(f.seconds), 2) \o <<",">>
        \o ZeroPad(Decimal(f.milliseconds), 3)

\* lines 73-79
FormatTimestamp(m) == FormatFields(TimestampFields(m))

NL == "\n"
Whitespace == {" ", "\t", NL}

RECURSIVE LStrip(_)
LStrip(s) == IF s # <<>> /\ Head(s) \in Whitespace THEN LStrip(Tail(s)) ELSE s

RECURSIVE RStrip(_)
RStrip(s) == IF s # <<>> /\ s[Len(s)] \in Whitespace
             THEN RStrip(SubSeq(s, 1, Len(s) - 1)) ELSE s

\* str.strip()
Strip(s) == RStrip(LStrip(s))

ARROW == << " ", "-", "-", ">", " " >>

\* an entry whose text is written as it came
SrtEntryUnstripped(i, segment) ==
    Decimal(i) \o <<NL>>
        \o FormatTimestamp(segment.start) \o ARROW \o FormatTimestamp(segment.end)
        \o <<NL>> \o segment.text \o <<NL, NL>>

\* lines 83-86: f"{i}\n{start} --> {end}\n{text}\n\n"
SrtEntry(i, segment) ==
    Decimal(i) \o <<NL>>
        \o FormatTimestamp(segment.start) \o ARROW \o FormatTimestamp(segment.end)
        \o <<NL>> \o Strip(segment.text) \o <<NL, NL>>

\* segment times, in milliseconds: 0, 1.001 s, 59.999 s, 3661.234 s, 100 h
Times == {0, 1001, 59999, 3661234, 360000000}

Texts ==
    { << "h", "i" >>,
      << " ", "h", " ", "i" >>,
      << "h", "i", " ", NL >> }

Segments == { seg \in [start : Times, end : Times, text : Texts] :
                seg.start <= seg.end }

\* whisper's segments are in time order and do not overlap
TimeOrdered(segs) ==
    \A k \in 1..(Len(segs) - 1) : segs[k].end <= segs[k + 1].start

SegmentLists ==
    { segs \in UNION { [1..n -> Segments] : n \in 0..MaxSegs } : TimeOrdered(segs) }

\* line 81: open(srt_path, "w", encoding="utf-8") truncates the file
SrtOpen ==
    /\ srtPc = "start"
    /\ srtFile' = <<>>
    /\ srtI' = 1
    /\ srtPc' = "loop"
    /\ UNCHANGED << segments, stamps, mediaVars, sumVars >>

\* lines 82-86: one turn of the for loop
SrtWriteEntry ==
    /\ srtPc = "loop"
    /\ srtI <= Len(segments)
    /\ srtFile' = srtFile \o SrtEntry(srtI, segments[srtI])
    /\ stamps' = Append(stamps,
                    [ start |-> TimestampFields(segments[srtI].start),
                      end   |-> TimestampFields(segments[srtI].end) ])
    /\ srtI' = srtI + 1
    /\ UNCHANGED << segments, srtPc, mediaVars, sumVars >>

\* the end of the for loop and of the with block
SrtClose ==
    /\ srtPc = "loop"
    /\ srtI > Len(segments)
    /\ srtPc' = "closed"
    /\ UNCHANGED << segments, srtI, srtFile, stamps, mediaVars, sumVars >>

SrtInit ==
    /\ segments \in SegmentLists
    /\ srtPc = "start"
    /\ srtI = 0
    /\ srtFile = <<>>
    /\ stamps = <<>>

\* generate_srt is not running
SrtIdle ==
    /\ segments = <<>>
    /\ srtPc = "idle"
    /\ srtI = 0
    /\ srtFile = <<>>
    /\ stamps = <<>>

(***************************************************************************)
(* summarize_text (lines 118-195).                                         *)
(*                                                                         *)
(* A text is the language it is written in, its number of characters and   *)
(* its number of words (what len(text) and len(text.split()) give); a text *)
(* of no words is empty or all whitespace.                                 *)
(***************************************************************************)
\* line 135: len(text) < 100
MIN_CHARS == 100
\* line 161: input_length_words < 20
MIN_WORDS == 20

SumLangs == {"en", "fr", "de"}

CharCounts == {0, MIN_CHARS - 1, MIN_CHARS, 2 * MIN_CHARS}
WordCounts == {0, 1, MIN_WORDS - 1, MIN_WORDS}

\* the requests tried: the text is written in the language the client
\* names as input_lang; n words take at least 2n - 1 characters
SumRequests ==
    { q \in [ text : [lang : SumLangs, chars : CharCounts, words : WordCounts],
              input_lang : SumLangs, output_lang : SumLangs ] :
        /\ q.text.lang = q.input_lang
        /\ q.text.chars >= 2 * q.text.words - 1 }

NoText == [lang |-> "none", chars |-> 0, words |-> 0]
NoException == [type |-> "none", status |-> 0, at |-> "none"]
NoSumResult == [status |-> 0, detail |-> "none", summary |-> NoText,
                output_language |-> "none"]

\* what global_translator.translate(text, dest=...) can return for a text
\* that has words: a text in the language dest, of some number of words
Translations(text, dest) ==
    { [lang |-> dest, chars |-> text.chars, words |-> w] : w \in WordCounts \ {0} }

\* whether the summary is translated (line 175)
TranslatesSummary(input_lang, output_lang) ==
    output_lang # "en" /\ output_lang # input_lang

SumFail(status, detail) ==
    /\ sumResult' = [NoSumResult EXCEPT !.status = status, !.detail = detail]
    /\ sumPc' = "done"

\* a statement of the try body raised: control goes to the except clause
SumRaise(type, status, at) ==
    /\ sumExc' = [type |-> type, status |-> status, at |-> at]
    /\ sumPc' = "except"

\* lines 126-141: the checks before the try block
SumValidate ==
    /\ sumPc = "validate"
    /\ \/ /\ "summarizer" \notin models
          /\ SumFail(500, "summarizer_not_loaded")
          /\ UNCHANGED processed
       \/ /\ "summarizer" \in models
          /\ "translator" \notin models
          /\ SumFail(500, "translator_not_initialized")
          /\ UNCHANGED processed
       \/ /\ {"summarizer", "translator"} \subseteq models
          /\ sumReq.text.words = 0
          /\ SumFail(400, "empty")
          /\ UNCHANGED processed
       \/ /\ {"summarizer", "translator"} \subseteq models
          /\ sumReq.text.words # 0
          /\ sumReq.text.chars < MIN_CHARS
          /\ SumFail(400, "input_too_short")
          /\ UNCHANGED processed
       \/ /\ {"summarizer", "translator"} \subseteq models
          /\ sumReq.text.words # 0
          /\ sumReq.text.chars >= MIN_CHARS
          /\ processed' = sumReq.text
          /\ sumPc' = "translate_in"
          /\ UNCHANGED sumResult
    /\ UNCHANGED << mediaVars, srtVars, sumReq, englishSummary, finalSummary, sumExc, sumCalls >>

\* lines 145-149: the input is translated to English when input_lang is
\* not "en"
SumTranslateIn ==
    /\ sumPc = "translate_in"
    /\ \/ /\ sumReq.input_lang = "en"
          /\ sumPc' = "length"
          /\ UNCHANGED << processed, sumExc >>
       \/ /\ sumReq.input_lang # "en"
          /\ processed' \in Translations(sumReq.text, "en")
          /\ sumPc' = "length"
          /\ UNCHANGED sumExc
       \/ /\ sumReq.input_lang # "en"
          /\ SumRaise("Exception", 0, "translate_in")
          /\ UNCHANGED processed
    /\ UNCHANGED << mediaVars, srtVars, sumReq, englishSummary, finalSummary, sumCalls, sumResult >>

\* lines 155-162: raise HTTPException(status_code=400, ...) when the text
\* has fewer than 20 words
SumCheckLength ==
    /\ sumPc = "length"
    /\ \/ /\ processed.words < MIN_WORDS
          /\ SumRaise("HTTPException", 400, "length")
       \/ /\ processed.words >= MIN_WORDS
          /\ sumPc' = "summarize"
          /\ UNCHANGED sumExc
    /\ UNCHANGED << mediaVars, srtVars, sumReq, processed, englishSummary, finalSummary, sumCalls,
                    sumResult >>

\* lines 164-171: the summarizer is called; its summary is in the language
\* of the text it is given
SumSummarize ==
    /\ sumPc = "summarize"
    /\ sumCalls' = sumCalls + 1
    /\ \/ /\ \E w \in WordCounts \ {0} :
                englishSummary' = [lang |-> processed.lang, chars |-> 2 * w, words |-> w]
          /\ sumPc' = "translate_out"
          /\ UNCHANGED sumExc
       \/ /\ SumRaise("Exception", 0, "summarize")
          /\ UNCHANGED englishSummary
    /\ UNCHANGED << mediaVars, srtVars, sumReq, processed, finalSummary, sumResult >>

\* lines 173-178: final_summary
SumTranslateOut ==
    /\ sumPc = "translate_out"
    /\ \/ /\ ~TranslatesSummary(sumReq.input_lang, sumReq.output_lang)
          /\ finalSummary' = englishSummary
          /\ sumPc' = "return"
          /\ UNCHANGED sumExc
       \/ /\ TranslatesSummary(sumReq.input_lang, sumReq.output_lang)
          /\ finalSummary' \in Translations(englishSummary, sumReq.output_lang)
          /\ sumPc' = "return"
          /\ UNCHANGED sumExc
       \/ /\ TranslatesSummary(sumReq.input_lang, sumReq.output_lang)
          /\ SumRaise("Exception", 0, "translate_out")
          /\ UNCHANGED finalSummary
    /\ UNCHANGED << mediaVars, srtVars, sumReq, processed, englishSummary, sumCalls, sumResult >>

\* lines 181-188: return JSONResponse(..., status_code=200)
SumReturn ==
    /\ sumPc = "return"
    /\ sumResult' = [ status |-> 200, detail |-> "none", summary |-> finalSummary,
                      output_language |-> sumReq.output_lang ]
    /\ sumPc' = "done"
    /\ UNCHANGED << mediaVars, srtVars, sumReq, processed, englishSummary, finalSummary, sumExc,
                    sumCalls >>

\* lines 190-195: except Exception as e catches whatever the try body
\* raised, HTTPException included, and raises HTTPException(status_code=500)
SumExcept ==
    /\ sumPc = "except"
    /\ SumFail(500, "summarization_failed")
    /\ UNCHANGED << mediaVars, srtVars, sumReq, processed, englishSummary, finalSummary, sumExc,
                    sumCalls >>

SumInit ==
    /\ sumPc = "validate"
    /\ sumReq \in SumRequests
    /\ processed = NoText
    /\ englishSummary = NoText
    /\ finalSummary = NoText
    /\ sumExc = NoException
    /\ sumCalls = 0
    /\ sumResult = NoSumResult

\* no request to /summarize/
SumIdle ==
    /\ sumPc = "idle"
    /\ sumReq = [text |-> NoText, input_lang |-> "none", output_lang |-> "none"]
    /\ processed = NoText
    /\ englishSummary = NoText
    /\ finalSummary = NoText
    /\ sumExc = NoException
    /\ sumCalls = 0
    /\ sumResult = NoSumResult

(***************************************************************************)
(* The specifications.                                                     *)
(***************************************************************************)
vars == << mediaVars, srtVars, sumVars >>

Init ==
    /\ MediaInit({1}, TRUE, 1..MaxDur, StartupsWithout({"whisper", "translator"}))
    /\ SrtIdle
    /\ SumIdle

Next == \E r \in Reqs : MediaStep(r)

\* one request to a media endpoint, every call of which may raise
Spec == Init /\ [][Next]_vars

InitConcurrent ==
    /\ MediaInit(Reqs, FALSE, {MaxDur}, StartupsWithout({"whisper", "translator"}))
    /\ SrtIdle
    /\ SumIdle

\* two requests to media endpoints, their statements interleaved in every
\* way, on a system whose calls all return
SpecConcurrent == InitConcurrent /\ [][Next]_vars

InitSrt ==
    /\ MediaIdle
    /\ SrtInit
    /\ SumIdle

NextSrt == SrtOpen \/ SrtWriteEntry \/ SrtClose

\* one run of generate_srt
SpecSrt == InitSrt /\ [][NextSrt]_vars

InitSummarize ==
    /\ MediaInit({}, FALSE, {}, StartupsWithout({"summarizer", "translator"}))
    /\ SrtIdle
    /\ SumInit

NextSummarize ==
    \/ SumValidate
    \/ SumTranslateIn
    \/ SumCheckLength
    \/ SumSummarize
    \/ SumTranslateOut
    \/ SumReturn
    \/ SumExcept

\* one request to /summarize/
SpecSummarize == InitSummarize /\ [][NextSummarize]_vars

(***************************************************************************)
(* Properties of the media endpoints.                                      *)
(***************************************************************************)
Done(r) == pc[r].phase = "done"

Succeeded(r) == Done(r) /\ result[r].kind = "success"

Range(seq) == {seq[i] : i \in DOMAIN seq}

Reverse(seq) == [i \in 1..Len(seq) |-> seq[Len(seq) + 1 - i]]

\* the statements of the try body that are release calls
ReleaseStmts == {"close_clip", "close_final", "close_audio"}

\* the number of release calls made on resource x: close() calls on a
\* handle, os.remove calls on the path of a temporary file
ReleaseCount(r, x) ==
    IF x \in Handles
    THEN Cardinality({i \in DOMAIN rel[r] : rel[r][i] = x})
    ELSE Cardinality({i \in DOMAIN rel[r] :
                        /\ rel[r][i] \in TempFiles
                        /\ ResourcePath(r, rel[r][i]) = ResourcePath(r, x)})

\* the position at which resource x was first acquired
AcqIndex(r, x) == CHOOSE i \in DOMAIN acq[r] :
                    /\ acq[r][i] = x
                    /\ \A j \in 1..(i-1) : acq[r][j] # x

\* C1: when a request to a media endpoint has returned, every resource it
\* acquired (the saved upload, the extracted audio, the TTS audio, the video
\* clip, the replacement-audio clip, the muxed clip) has been released
\* exactly once, whichever statement of the try body raised, if any. (The
\* claim is about stages raising: runs in which a release call itself
\* raised are left to C3.)
C1_ReleasedExactlyOnce ==
    \A r \in Reqs :
        (Done(r) /\ warn[r] = "none" /\ raised[r] \notin ReleaseStmts)
            => \A i \in DOMAIN acq[r] : ReleaseCount(r, acq[r][i]) = 1

C3_ReleaseFailureDoesNotMask ==
    \A r \in Reqs :
        (Done(r) /\ raised[r] # "none" /\ warn[r] # "none")
            => /\ result[r] = [status |-> 500, kind |-> "stage", at |-> raised[r]]
               /\ \A x \in (Range(acq[r]) \cap TempFiles) \ {warn[r]} :
                    ResourcePath(r, x) \notin fs

\* C4: the audio of the output video lasts min(A, V), A being the duration
\* of the synthesized audio and V that of the video: cut to V when A > V,
\* unchanged when A <= V.
C4_AudioIsMinOfDurations ==
    \A r \in Reqs :
        "final_clip" \in Range(acq[r])
            => /\ dur[r].A > dur[r].V => dur[r].out = dur[r].V
               /\ dur[r].A <= dur[r].V => dur[r].out = dur[r].A

\* a muxed clip whose synthesized audio was longer than the video
C4_Witness ==
    \E r \in Reqs :
        /\ "final_clip" \in Range(acq[r])
        /\ dur[r].A > dur[r].V
        /\ dur[r].out = dur[r].V

\* the file names request r computed
PathSet(r) == {path[r][f] : f \in DOMAIN path[r]} \ {<<>>}

\* C5: two requests in flight whose generated identifiers differ share no
\* file name, and neither creates, reads or removes a file of the other.
C5_NoSharedPaths ==
    \A r1, r2 \in Reqs :
        (r1 # r2 /\ uid[r1] # <<>> /\ uid[r2] # <<>> /\ uid[r1] # uid[r2])
            => /\ PathSet(r1) \cap PathSet(r2) = {}
               /\ touched[r1] \cap PathSet(r2) = {}
               /\ touched[r1] \cap touched[r2] = {}

\* two requests with the same uploaded file name and different identifiers,
\* both of which have written and removed files
C5_Witness ==
    /\ \A r \in Reqs : Done(r) /\ touched[r] # {} /\ rel[r] # <<>>
    /\ uid[1] # uid[2]
    /\ filename[1] = filename[2]
    /\ ep[1] # ep[2]

\* C10: after an upload_audio or generate_subtitles request that returned
\* success, whatever the uploaded file's name, the SRT file the response
\* names still exists once the finally block has run.
C10_SrtKept ==
    \A r \in Reqs :
        (Succeeded(r) /\ ep[r] \in {UPLOAD_AUDIO, GENERATE_SUBTITLES})
            => path[r].srt \in fs

(***************************************************************************)
(* Properties of generate_srt and format_timestamp.                        *)
(***************************************************************************)
RECURSIVE SplitLines(_)
\* the lines of a text: what lies between its line feeds
SplitLines(s) ==
    IF \E i \in 1..Len(s) : s[i] = NL
    THEN LET i == CHOOSE i \in 1..Len(s) :
                    s[i] = NL /\ \A j \in 1..(i-1) : s[j] # NL
         IN  << SubSeq(s, 1, i - 1) >> \o SplitLines(SubSeq(s, i + 1, Len(s)))
    ELSE << s >>

DigitValue(c) == CHOOSE d \in 0..9 : Digit(d) = c

RECURSIVE ParseDecimal(_)
\* the number a line of digits writes, -1 for any other line
ParseDecimal(line) ==
    IF line = <<>> \/ \E i \in 1..Len(line) : \A d \in 0..9 : Digit(d) # line[i]
    THEN -1
    ELSE IF Len(line) = 1 THEN DigitValue(line[1])
    ELSE 10 * ParseDecimal(SubSeq(line, 1, Len(line) - 1))
            + DigitValue(line[Len(line)])

\* t is text without its leading and trailing whitespace
IsStrippedOf(t, text) ==
    /\ t = <<>> \/ (t[1] \notin Whitespace /\ t[Len(t)] \notin Whitespace)
    /\ \E a \in 0..Len(text) :
        /\ a + Len(t) <= Len(text)
        /\ SubSeq(text, a + 1, a + Len(t)) = t
        /\ \A i \in (1..a) \cup ((a + Len(t) + 1)..Len(text)) :
                text[i] \in Whitespace

\* C6: given n segments, generate_srt writes n entries in the order of the
\* segments; the k-th is four lines: the index k (from 1, no gaps), the time
\* range "start --> end" of the k-th segment, its text without leading and
\* trailing whitespace, and a blank line.
C6_SrtEntries ==
    srtPc = "closed" =>
        LET L == SplitLines(srtFile)
            n == Len(segments)
        IN  /\ Len(L) = 4 * n + 1
            /\ L[4 * n + 1] = <<>>
            /\ \A k \in 1..n :
                /\ ParseDecimal(L[4 * k - 3]) = k
                /\ L[4 * k - 2] = FormatTimestamp(segments[k].start) \o ARROW
                                    \o FormatTimestamp(segments[k].end)
                /\ IsStrippedOf(L[4 * k - 1], segments[k].text)
                /\ L[4 * k] = <<>>

\* a file written from two segments, the first with leading and the second
\* with trailing whitespace in its text
C6_Witness ==
    /\ srtPc = "closed"
    /\ Len(segments) = 2
    /\ segments[1].text[1] \in Whitespace
    /\ segments[2].text[Len(segments[2].text)] \in Whitespace
    /\ srtFile # <<>>

\* C7: for a time of m whole milliseconds, format_timestamp computes fields
\* with 0 <= minutes <= 59, 0 <= seconds <= 59, 0 <= milliseconds <= 999 and
\* hours*3600000 + minutes*60000 + seconds*1000 + milliseconds = m;
\* 3661.234 seconds is written 01:01:01,234.
C7_FieldsMakeUpTheTime ==
    \A k \in DOMAIN stamps :
        \A side \in {"start", "end"} :
            LET f == stamps[k][side]
                m == segments[k][side]
            IN  /\ f.hours >= 0
                /\ f.minutes \in 0..59
                /\ f.seconds \in 0..59
                /\ f.milliseconds \in 0..999
                /\ f.hours * 3600000 + f.minutes * 60000 + f.seconds * 1000
                        + f.milliseconds = m
                /\ m = 3661234 =>
                        FormatFields(f) = << "0", "1", ":", "0", "1", ":", "0", "1",
                                             ",", "2", "3", "4" >>

(***************************************************************************)
(* Properties of summarize_text.                                           *)
(***************************************************************************)
\* C8: the summary of a successful /summarize/ response is in the language
\* the response names as output_language: the English summary when
\* output_lang is "en", its translation to output_lang otherwise.
C8_SummaryInOutputLanguage ==
    (sumPc = "done" /\ sumResult.status = 200) =>
        /\ sumResult.summary.lang = sumResult.output_language
        /\ sumReq.output_lang = "en" => sumResult.summary = englishSummary
        /\ sumReq.output_lang # "en" =>
                sumResult.summary \in Translations(englishSummary, sumReq.output_lang)

\* C9: when the text to be summarized, after the translation to English if
\* there is one, has fewer than 20 words, the request is answered with
\* status 400 and the summarizer is not called.
C9_ShortTextRejectedWith400 ==
    ( /\ sumPc = "done"
      /\ processed # NoText
      /\ sumExc.at # "translate_in"
      /\ processed.words < MIN_WORDS )
        => /\ sumResult.status = 400
           /\ sumCalls = 0

====
